---- MODULE Spec2Model ----
(***************************************************************************)
(* A model of the neuro-symbolic diagnostics core: the modal-logic parser  *)
(* and evaluator (modal_logic.py), the rule consistency check, the belief  *)
(* update and the diagnosis routine (agents.py), and the lattice           *)
(* connectivity query (knowledge.py).                                      *)
(*                                                                         *)
(* Text is modelled as a sequence of chunks.  A proposition or an agent    *)
(* name is the sequence of its words with the underscores between them     *)
(* ("RF_Agent" is <<"RF", "_", "Agent">>); a process-variable id is cut so *)
(* that every needle of a substring test is one chunk.  A rule is the      *)
(* sequence of the tokens the lexer yields for it (white space dropped).   *)
(***************************************************************************)
EXTENDS Integers, Sequences, FiniteSets, TLC

VARIABLES
    kripke_model,        \* NeuroSymbolicAgent.kripke_model of the diagnostics agent
    expert_rules,        \* NeuroSymbolicAgent.expert_rules
    last,                \* the last call made on the agent: arguments, calls out, result
    agents,              \* main: the names of the agents the scenario created
    unresolved_reports,  \* main: the pending table, the reports in it (one per sender)
    tick                 \* main: the loop counter i, 0 before the first tick

vars == <<kripke_model, expert_rules, last, agents, unresolved_reports, tick>>

\* the state of main's loop
main_vars == <<agents, unresolved_reports, tick>>

\* no simulation is running: the agent is used on its own
no_simulation ==
    /\ agents = {}
    /\ unresolved_reports = {}
    /\ tick = 0

Range(s) == {s[i] : i \in DOMAIN s}

(***************************************************************************)
(* Bounds of the model.                                                    *)
(***************************************************************************)
\* at most this many accessibility edges in a generated Kripke model
MaxEdges == 2
\* at most this many propositions true in one world of a generated model
MaxTrue == 1
\* at most this many connectives in a generated formula
MaxOps == 1

\* at most this many ticks of the simulation loop are followed
MaxTicks == 3

\* at most this many operands in a generated chain of binary operators
MaxOperands == 3

\* main.py, `for i in range(1, 8)`: the loop runs for seven ticks
Ticks == 7

(***************************************************************************)
(* Propositions and rule text.                                             *)
(***************************************************************************)
fault_reported == <<"_", "fault", "_", "reported">>
cooling_fault_reported == <<"cooling">> \o fault_reported
klystron_fault_reported == <<"klystron">> \o fault_reported
rf_fault_reported == <<"rf">> \o fault_reported
vacuum_fault_reported == <<"vacuum">> \o fault_reported
rf_power_fault_reported == <<"rf", "_", "power">> \o fault_reported
rf_temp_high == <<"rf", "_", "temp", "_", "high">>
rf_fault_is_root_cause == <<"rf", "_", "fault", "_", "is", "_", "root", "_", "cause">>
system_nominal == <<"system", "_", "nominal">>

\* a token of the lexer: a CNAME carries its text, every other token is its literal
Name(p) == [type |-> "CNAME", value |-> p]
Lit(s) == [type |-> s, value |-> <<>>]

\* src/expert_rules.py: the four shipped rules, as token sequences
EXPERT_RULES ==
    << << Lit("[]"), Lit("("), Name(rf_temp_high), Lit("->"), Lit("<>"),
          Name(cooling_fault_reported), Lit(")") >>,
       << Lit("[]"), Lit("("), Name(klystron_fault_reported), Lit("->"),
          Name(rf_power_fault_reported), Lit(")") >>,
       << Lit("[]"), Lit("~"), Lit("("), Name(cooling_fault_reported), Lit("&"),
          Name(klystron_fault_reported), Lit(")") >>,
       << Lit("[]"), Lit("("), Name(vacuum_fault_reported), Lit("->"), Lit("~"),
          Lit("<>"), Name(rf_fault_is_root_cause), Lit(")") >> >>

(***************************************************************************)
(* modal_logic.py: the grammar and the transformer.                        *)
(***************************************************************************)
\* the binary levels of MODAL_GRAMMAR, lowest precedence first
BinaryLevels ==
    << [op |-> "<->", name |-> "equivalence"],
       [op |-> "->", name |-> "implication"],
       [op |-> "|", name |-> "disjunction"],
       [op |-> "&", name |-> "conjunction"] >>

\* a parse result: the tree, and the position of the first token not consumed
Parsed(ast, pos) == [ok |-> TRUE, ast |-> ast, pos |-> pos]
\* lark raises on a malformed text
SyntaxError == [ok |-> FALSE, ast |-> <<>>, pos |-> 0]

RECURSIVE FoldArgs(_, _, _, _)
FoldArgs(op_name, args, i, result) ==
    IF i > Len(args) THEN result
    ELSE FoldArgs(op_name, args, i + 1, <<op_name, result, args[i]>>)

\* ModalTransformer._reduce_args: one argument is passed through, more are
\* folded from the left
_reduce_args_right(op_name, args) ==
    IF Len(args) = 1 THEN args[1]
    ELSE IF Len(args) = 2 THEN <<op_name, args[1], args[2]>>
    ELSE <<op_name, args[1], FoldArgs(op_name, Tail(args), 2, args[2])>>

_reduce_args(op_name, args) ==
    IF Len(args) = 1 THEN args[1]
    ELSE FoldArgs(op_name, args, 2, args[1])

RECURSIVE parse_level(_, _, _), parse_operands(_, _, _, _), parse_negation(_, _)

\* ?negation: "~" negation -> negation | modal
\* ?modal: "[]" negation -> necessity | "<>" negation -> possibility | atom
\* ?atom: CNAME -> proposition | "(" expression ")"
parse_negation(text, pos) ==
    IF pos > Len(text) THEN SyntaxError
    ELSE LET tok == text[pos] IN
         CASE tok.type = "~" ->
                LET r == parse_negation(text, pos + 1) IN
                IF r.ok THEN Parsed(<<"negation", r.ast>>, r.pos) ELSE SyntaxError
           [] tok.type = "[]" ->
                LET r == parse_negation(text, pos + 1) IN
                IF r.ok THEN Parsed(<<"necessity", r.ast>>, r.pos) ELSE SyntaxError
           [] tok.type = "<>" ->
                LET r == parse_negation(text, pos + 1) IN
                IF r.ok THEN Parsed(<<"possibility", r.ast>>, r.pos) ELSE SyntaxError
           [] tok.type = "CNAME" -> Parsed(<<"proposition", tok.value>>, pos + 1)
           [] tok.type = "(" ->
                LET r == parse_level(text, pos + 1, 1) IN
                IF r.ok /\ r.pos <= Len(text) /\ text[r.pos].type = ")"
                THEN Parsed(r.ast, r.pos + 1) ELSE SyntaxError
           [] OTHER -> SyntaxError

\* the ("op" operand)* tail of a binary level: the operands gathered so far
parse_operands(text, pos, lvl, args) ==
    IF pos <= Len(text) /\ text[pos].type = BinaryLevels[lvl].op
    THEN LET r == parse_level(text, pos + 1, lvl + 1) IN
         IF r.ok THEN parse_operands(text, r.pos, lvl, Append(args, r.ast))
         ELSE SyntaxError
    ELSE Parsed(args, pos)

\* ?equivalence: implication ("<->" implication)*   and the three levels below it
parse_level(text, pos, lvl) ==
    IF lvl > Len(BinaryLevels) THEN parse_negation(text, pos)
    ELSE LET first == parse_level(text, pos, lvl + 1) IN
         IF ~first.ok THEN SyntaxError
         ELSE LET rest == parse_operands(text, first.pos, lvl, <<first.ast>>) IN
              IF ~rest.ok THEN SyntaxError
              ELSE Parsed(_reduce_args(BinaryLevels[lvl].name, rest.ast), rest.pos)

\* ModalParser.parse: the whole text must be one expression
parse(text) ==
    LET r == parse_level(text, 1, 1) IN
    IF r.ok /\ r.pos = Len(text) + 1 THEN r ELSE SyntaxError

(***************************************************************************)
(* modal_logic.py: KripkeModel and evaluate.                               *)
(*                                                                         *)
(* A model is the record of its four attributes: worlds and relations are  *)
(* sets, valuations is a dict (a function on the worlds that have an       *)
(* entry) of sets of propositions.                                         *)
(***************************************************************************)
\* KripkeModel.__init__: set(worlds), set(relations), the dict as given
KripkeModel(worlds, relations, valuations, current_world) ==
    [worlds |-> worlds, relations |-> relations, valuations |-> valuations,
     current_world |-> current_world]

\* model.valuations.get(world, set())
valuations_get(model, world) ==
    IF world \in DOMAIN model.valuations THEN model.valuations[world] ELSE {}

\* [u for w, u in model.relations if w == world]
accessible_into(model, world) == {r[1] : r \in {q \in model.relations : q[2] = world}}

\* a slip: every world taken to see itself
accessible_reflexive(model, world) ==
    {r[2] : r \in {q \in model.relations : q[1] = world}} \cup {world}

accessible(model, world) == {r[2] : r \in {q \in model.relations : q[1] = world}}

RECURSIVE evaluate(_, _, _)

\* a slip: implication read as "both hold"
implication_both(model, world, formula) ==
    evaluate(model, world, formula[2]) /\ evaluate(model, world, formula[3])

\* 'implication': not evaluate(f) or evaluate(g)
implication(model, world, formula) ==
    ~evaluate(model, world, formula[2]) \/ evaluate(model, world, formula[3])

\* a slip: necessity read as "some accessible world"
necessity_any(model, world, formula) ==
    \E u \in accessible(model, world) : evaluate(model, u, formula[2])

\* 'necessity': vacuously true without accessible worlds, else all of them
necessity(model, world, formula) ==
    IF accessible(model, world) = {} THEN TRUE
    ELSE \A u \in accessible(model, world) : evaluate(model, u, formula[2])

\* a slip: the empty case of 'necessity' carried over to 'possibility'
possibility_vacuous(model, world, formula) ==
    IF accessible(model, world) = {} THEN TRUE
    ELSE \E u \in accessible(model, world) : evaluate(model, u, formula[2])

\* 'possibility': any accessible world
possibility(model, world, formula) ==
    \E u \in accessible(model, world) : evaluate(model, u, formula[2])

\* evaluate(model, world, formula)
evaluate(model, world, formula) ==
    LET op == formula[1] IN
    CASE op = "proposition" -> formula[2] \in valuations_get(model, world)
      [] op = "negation" -> ~evaluate(model, world, formula[2])
      [] op = "conjunction" ->
            evaluate(model, world, formula[2]) /\ evaluate(model, world, formula[3])
      [] op = "disjunction" ->
            evaluate(model, world, formula[2]) \/ evaluate(model, world, formula[3])
      [] op = "implication" -> implication(model, world, formula)
      [] op = "equivalence" ->
            evaluate(model, world, formula[2]) = evaluate(model, world, formula[3])
      [] op = "necessity" -> necessity(model, world, formula)
      [] op = "possibility" -> possibility(model, world, formula)

\* ModalParser.check: the formula at the model's current world
check(model, formula_str) == evaluate(model, model.current_world, parse(formula_str).ast)

(***************************************************************************)
(* The object graph behind a model.  The valuations dict and the sets in   *)
(* it are mutable objects: a store maps a reference to the object it       *)
(* names, a dict object maps a world to the reference of its set.  A model *)
(* object holds the reference of its dict.                                 *)
(***************************************************************************)
DictRef(owner) == <<owner, "valuations">>
SetRef(owner, world) == <<owner, "set", world>>

\* the live model as objects owned by `owner`
Objects(model, owner) ==
    [obj |-> [worlds |-> model.worlds, relations |-> model.relations,
              valuations |-> DictRef(owner), current_world |-> model.current_world],
     store |-> [r \in {DictRef(owner)} \cup {SetRef(owner, w) : w \in DOMAIN model.valuations} |->
                  IF Len(r) = 2 THEN [w \in DOMAIN model.valuations |-> SetRef(owner, w)]
                  ELSE model.valuations[r[3]]]]

\* the model an object stands for in a store
Value(obj, store) ==
    KripkeModel(obj.worlds, obj.relations,
                [w \in DOMAIN store[obj.valuations] |-> store[store[obj.valuations][w]]],
                obj.current_world)

\* a slip: copy.copy of the attributes, the sets of the dict shared
copy_shallow(obj, store, owner) ==
    [obj |-> [obj EXCEPT !.valuations = DictRef(owner)],
     store |-> (DictRef(owner) :> store[obj.valuations]) @@ store]

\* KripkeModel.copy: deepcopy of every attribute
copy(obj, store, owner) ==
    LET dict == store[obj.valuations] IN
    [obj |-> [obj EXCEPT !.valuations = DictRef(owner)],
     store |-> [r \in {DictRef(owner)} \cup {SetRef(owner, w) : w \in DOMAIN dict} |->
                  IF Len(r) = 2 THEN [w \in DOMAIN dict |-> SetRef(owner, w)]
                  ELSE store[dict[r[3]]]] @@ store]

\* dict.setdefault(key, set()): the reference under key, a fresh set put there first
\* when the key is absent
setdefault(store, dict_ref, key, fresh) ==
    IF key \in DOMAIN store[dict_ref] THEN [ref |-> store[dict_ref][key], store |-> store]
    ELSE [ref |-> fresh,
          store |-> (dict_ref :> ((key :> fresh) @@ store[dict_ref])) @@ (fresh :> {}) @@ store]

\* set.add
add(store, set_ref, element) == (set_ref :> (store[set_ref] \cup {element})) @@ store

(***************************************************************************)
(* agents.py: the rule consistency check.                                  *)
(***************************************************************************)
\* expert_rules of an agent: a list of rule texts, or None
None == [is_none |-> TRUE, list |-> <<>>]
List(items) == [is_none |-> FALSE, list |-> items]

RECURSIVE all_rules_hold(_, _, _)

\* a slip: only the first rule is looked at
first_rule_holds(model, rules, i) ==
    IF i > Len(rules) THEN TRUE ELSE check(model, rules[i])

\* the loop over the rules: False at the first rule that does not hold
all_rules_hold(model, rules, i) ==
    IF i > Len(rules) THEN TRUE
    ELSE IF ~check(model, rules[i]) THEN FALSE
    ELSE all_rules_hold(model, rules, i + 1)

\* lines 100-101: setdefault on the valuations of the hypothetical model, then add
add_to_current_world(model_obj, store, hypothesis_proposition, current_world_valuations) ==
    [obj |-> model_obj,
     store |-> add(current_world_valuations.store, current_world_valuations.ref,
                   hypothesis_proposition)]

with_hypothesis(hypothetical_model, hypothesis_proposition) ==
    add_to_current_world(
        hypothetical_model.obj, hypothetical_model.store, hypothesis_proposition,
        setdefault(hypothetical_model.store, hypothetical_model.obj.valuations,
                   hypothetical_model.obj.current_world,
                   SetRef("fresh", hypothetical_model.obj.current_world)))

\* a slip: the live model itself is used as the hypothetical one
hypothetical_alias(live, hypothesis_proposition) ==
    with_hypothesis(live, hypothesis_proposition)

\* the hypothetical model of _is_hypothesis_valid, lines 99-101: the copy, with
\* the proposition added to the set of its current world
hypothetical(live, hypothesis_proposition) ==
    with_hypothesis(copy(live.obj, live.store, "hypothetical"), hypothesis_proposition)

\* lines 103-109: the rules checked on the hypothetical model; the live model is
\* what its object stands for when the call returns
checked(live, hyp, rules) ==
    [result |-> all_rules_hold(Value(hyp.obj, hyp.store), rules, 1),
     kripke_model |-> Value(live.obj, hyp.store)]

checked_on(live, rules, hypothesis_proposition) ==
    checked(live, hypothetical(live, hypothesis_proposition), rules)

\* a slip: no rules, or any rules, the check passes
_is_hypothesis_valid_always(model, rules, hypothesis_proposition) ==
    [result |-> TRUE, kripke_model |-> model]

\* NeuroSymbolicAgent._is_hypothesis_valid: the result, and the live model as the
\* call leaves it
_is_hypothesis_valid(model, rules, hypothesis_proposition) ==
    IF rules.is_none \/ Len(rules.list) = 0
    THEN [result |-> TRUE, kripke_model |-> model]
    ELSE checked_on(Objects(model, "live"), rules.list, hypothesis_proposition)

(***************************************************************************)
(* Serialization (KripkeModel.to_dict) and the belief update               *)
(* (NeuroSymbolicAgent.update_kripke_model).                               *)
(***************************************************************************)
\* a list of a JSON document
JsonList(items) == [list |-> items]

\* list(a set): the elements once each, in the order the set iterates, any order
Orders(S) == {o \in [1..Cardinality(S) -> S] : Range(o) = S}

\* JSON object keys of a serialized model
ModelKeys == {"worlds", "relations", "valuations", "current_world"}

\* KripkeModel.to_dict: every dictionary the call can return
to_dict(model) ==
    LET lists(S) == {JsonList(o) : o \in Orders(S)}
        D == DOMAIN model.valuations
    IN  {[keys |-> ModelKeys,
          worlds |-> ws,
          relations |-> JsonList([i \in DOMAIN rs |-> JsonList(rs[i])]),
          valuations |-> vs,
          current_world |-> model.current_world] :
            ws \in lists(model.worlds),
            rs \in Orders(model.relations),
            vs \in {f \in [D -> UNION {lists(model.valuations[w]) : w \in D}] :
                        \A w \in D : f[w] \in lists(model.valuations[w])}}

\* set(a list), tuple(a list)
set(l) == Range(l.list)
tuple(l) == l.list

\* dict.get(key, default)
get(dict, key, default) == IF key \in dict.keys THEN dict[key] ELSE default

\* a slip: the current world of the response is not read
from_dict_default_world(dict) ==
    KripkeModel(set(get(dict, "worlds", JsonList(<<>>))),
                {tuple(r) : r \in set(get(dict, "relations", JsonList(<<>>)))},
                [w \in DOMAIN get(dict, "valuations", <<>>) |->
                    set(get(dict, "valuations", <<>>)[w])],
                "")

\* update_kripke_model, lines 305-311: the model built from the parsed response
from_dict(dict) ==
    KripkeModel(set(get(dict, "worlds", JsonList(<<>>))),
                {tuple(r) : r \in set(get(dict, "relations", JsonList(<<>>)))},
                [w \in DOMAIN get(dict, "valuations", <<>>) |->
                    set(get(dict, "valuations", <<>>)[w])],
                get(dict, "current_world", ""))

\* what the oracle's chat call does: it raises, or its content is no JSON, or is
\* JSON but no object, or is an object
Raises == [kind |-> "raises"]
NotJson == [kind |-> "not_json"]
NotObject == [kind |-> "not_object"]
Object(dict) == [kind |-> "object", dict |-> dict]

\* set(p) raises TypeError for a value that is no list
Iterable(p) == "list" \in DOMAIN p

\* set(worlds) in KripkeModel.__init__, and tuple(r) for r in the relations,
\* raise TypeError for a value that is no list
worlds_iterable(dict) == Iterable(get(dict, "worlds", JsonList(<<>>)))
relations_iterable(dict) ==
    /\ Iterable(get(dict, "relations", JsonList(<<>>)))
    /\ \A r \in set(get(dict, "relations", JsonList(<<>>))) : Iterable(r)

\* a slip: the attributes of the live model are assigned one by one, the
\* valuations first
update_kripke_model_in_place(model, response) ==
    IF response.kind # "object" THEN model
    ELSE IF \E w \in DOMAIN get(response.dict, "valuations", <<>>) :
                ~Iterable(get(response.dict, "valuations", <<>>)[w])
    THEN model
    ELSE IF ~worlds_iterable(response.dict) \/ ~relations_iterable(response.dict)
    THEN [model EXCEPT !.valuations =
            [w \in DOMAIN get(response.dict, "valuations", <<>>) |->
                set(get(response.dict, "valuations", <<>>)[w])]]
    ELSE from_dict(response.dict)

\* NeuroSymbolicAgent.update_kripke_model: the live model after the call.  Every
\* exception of the try block is caught, and the assignment to self.kripke_model
\* is its last statement.
update_kripke_model(model, response) ==
    IF response.kind # "object" THEN model
    ELSE IF \E w \in DOMAIN get(response.dict, "valuations", <<>>) :
                ~Iterable(get(response.dict, "valuations", <<>>)[w])
    THEN model
    ELSE IF ~worlds_iterable(response.dict) \/ ~relations_iterable(response.dict)
    THEN model
    ELSE from_dict(response.dict)

(***************************************************************************)
(* knowledge.py: the lattice layout and the connectivity query.            *)
(***************************************************************************)
\* component ids, sensor ids and other process-variable ids
RF_cavity == <<"RF:cavity">>
RF_klystron == <<"RF:klystron">>
COOL_primary_loop == <<"COOL:primary_loop">>
COOL_secondary_loop == <<"COOL:secondary_loop">>
MAG_quad_1A == <<"MAG:quad_1A">>
PS_quad_1A == <<"PS:quad_1A">>
VAC_sector1_pump == <<"VAC:sector1_pump">>
BPM_1A == <<"BPM:1A">>
BL_1 == <<"BL:1">>
DIAG_screen_monitor == <<"DIAG:screen_monitor">>
RF_klystron_voltage == <<"RF:klystron", ":voltage">>
RF_klystron_output == <<"RF:klystron", "_output">>
COOL_water_pressure == <<"COOL:water_pressure">>
COOL_valve_position == <<"COOL:valve_position">>
PS_quad_1A_current == <<"PS:quad_1A", ":current">>
PS_quad_1A_voltage == <<"PS:quad_1A", ":voltage">>
VAC_sector1_pump_pressure == <<"VAC:sector1_pump", ":pressure">>
\* ids no sensors list holds
COOL_water_pressure_raw == <<"COOL:water_pressure", ":raw">>
COOL_water_temp == <<"COOL:water_temp">>
RF_cavity_temp == <<"RF:cavity", "_temp">>
RF_klystron_output_raw == <<"RF:klystron", "_output", ":raw">>

\* a dict of connected_to: the relation types it has, in a function
NoConnections == [t \in {} |-> <<>>]

\* one component of the layout: `has` holds the keys its dict carries (beside
\* type and description, which every component has)
Component(name, has, connected_to, services, sensors) ==
    [name |-> name, has |-> has, connected_to |-> connected_to,
     services |-> services, sensors |-> sensors]

\* LATTICE_LAYOUT, in the order of the dict
LATTICE_LAYOUT ==
    << Component(RF_cavity, {"connected_to"},
                 [t \in {"cooling", "power", "beamline", "vacuum"} |->
                    CASE t = "cooling" -> COOL_primary_loop
                      [] t = "power" -> RF_klystron
                      [] t = "beamline" -> BL_1
                      [] t = "vacuum" -> VAC_sector1_pump],
                 <<>>, <<>>),
       Component(RF_klystron, {"services", "sensors"}, NoConnections,
                 <<RF_cavity>>, <<RF_klystron_voltage, RF_klystron_output>>),
       Component(COOL_primary_loop, {"services", "sensors"}, NoConnections,
                 <<RF_cavity, MAG_quad_1A>>, <<COOL_water_pressure, COOL_valve_position>>),
       Component(COOL_secondary_loop, {"services", "sensors"}, NoConnections,
                 <<DIAG_screen_monitor>>, <<>>),
       Component(MAG_quad_1A, {"connected_to"},
                 [t \in {"power", "cooling", "beamline"} |->
                    CASE t = "power" -> PS_quad_1A
                      [] t = "cooling" -> COOL_primary_loop
                      [] t = "beamline" -> BL_1],
                 <<>>, <<>>),
       Component(PS_quad_1A, {"services", "sensors"}, NoConnections,
                 <<MAG_quad_1A>>, <<PS_quad_1A_current, PS_quad_1A_voltage>>),
       Component(VAC_sector1_pump, {"services", "sensors"}, NoConnections,
                 <<RF_cavity, BPM_1A>>, <<VAC_sector1_pump_pressure>>),
       Component(BPM_1A, {"connected_to"},
                 [t \in {"beamline", "vacuum"} |->
                    CASE t = "beamline" -> BL_1
                      [] t = "vacuum" -> VAC_sector1_pump],
                 <<>>, <<>>) >>

\* Python's None, and every other value that `not` takes for false
Nothing == <<>>

\* layout.get(name): the component's details, or None
layout_get(layout, name) ==
    IF \E i \in DOMAIN layout : layout[i].name = name
    THEN layout[CHOOSE i \in DOMAIN layout : layout[i].name = name]
    ELSE Nothing

\* details.get("sensors", []), details.get("services", []),
\* details.get("connected_to", {}).get(connection_type)
sensors_of(details) == IF "sensors" \in details.has THEN details.sensors ELSE <<>>
services_of(details) ==
    IF details # Nothing /\ "services" \in details.has THEN details.services ELSE <<>>
connection_of(details, connection_type) ==
    IF "connected_to" \in details.has /\ connection_type \in DOMAIN details.connected_to
    THEN details.connected_to[connection_type]
    ELSE Nothing

\* needle in text, for strings: a run of chunks of text
Contains(text, needle) ==
    \E i \in 1..(Len(text) - Len(needle) + 1) :
        SubSeq(text, i, i + Len(needle) - 1) = needle

\* a slip: the owner is looked for by substring in the first place
_find_component_by_sensor_loose(layout, sensor_pv) ==
    IF \E i \in DOMAIN layout : \E j \in DOMAIN sensors_of(layout[i]) :
            Contains(sensor_pv, sensors_of(layout[i])[j])
    THEN layout[CHOOSE i \in DOMAIN layout :
                    /\ \E j \in DOMAIN sensors_of(layout[i]) :
                            Contains(sensor_pv, sensors_of(layout[i])[j])
                    /\ \A k \in 1..(i - 1) : \A j \in DOMAIN sensors_of(layout[k]) :
                            ~Contains(sensor_pv, sensors_of(layout[k])[j])].name
    ELSE Nothing

\* LatticeModel._find_component_by_sensor: the first component, in the order of
\* the layout, whose sensors list holds the id; else the fallback heuristics
_find_component_by_sensor(layout, sensor_pv) ==
    IF \E i \in DOMAIN layout : sensor_pv \in Range(sensors_of(layout[i]))
    THEN layout[CHOOSE i \in DOMAIN layout :
                    /\ sensor_pv \in Range(sensors_of(layout[i]))
                    /\ \A k \in 1..(i - 1) : sensor_pv \notin Range(sensors_of(layout[k]))].name
    ELSE IF Contains(sensor_pv, COOL_water_pressure) THEN COOL_primary_loop
    ELSE IF Contains(sensor_pv, PS_quad_1A) THEN PS_quad_1A
    ELSE IF Contains(sensor_pv, VAC_sector1_pump) THEN VAC_sector1_pump
    ELSE Nothing

\* the answer of are_components_connected: the boolean, and the reason by the
\* sentence it is built from
Answer(connected, reason) == [connected |-> connected, reason |-> reason]

\* a slip: the services of the upstream component are looked at first
are_components_connected_services_first(layout, upstream, downstream, connection_type) ==
    LET upstream_component == _find_component_by_sensor(layout, upstream)
        downstream_info == layout_get(layout, downstream)
    IN  IF upstream_component = Nothing
        THEN Answer(FALSE, "upstream PV does not map to a known component")
        ELSE IF downstream_info = Nothing
        THEN Answer(FALSE, "downstream component does not exist")
        ELSE IF downstream \in Range(services_of(layout_get(layout, upstream_component)))
        THEN Answer(TRUE, "upstream component lists downstream in its services")
        ELSE IF connection_of(downstream_info, connection_type) = upstream_component
        THEN Answer(TRUE, "downstream component explicitly lists upstream as its source")
        ELSE Answer(FALSE, "no physical connection was found")

\* a slip: the services of the upstream component are not looked at
are_components_connected_no_services(layout, upstream, downstream, connection_type) ==
    LET upstream_component == _find_component_by_sensor(layout, upstream)
        downstream_info == layout_get(layout, downstream)
    IN  IF upstream_component = Nothing
        THEN Answer(FALSE, "upstream PV does not map to a known component")
        ELSE IF downstream_info = Nothing
        THEN Answer(FALSE, "downstream component does not exist")
        ELSE IF connection_of(downstream_info, connection_type) = upstream_component
        THEN Answer(TRUE, "downstream component explicitly lists upstream as its source")
        ELSE Answer(FALSE, "no physical connection was found")

\* a slip: a source declared under the relation type settles the answer, and the
\* services are looked at only when none is declared
are_components_connected_declared_only(layout, upstream, downstream, connection_type) ==
    LET upstream_component == _find_component_by_sensor(layout, upstream)
        downstream_info == layout_get(layout, downstream)
    IN  IF upstream_component = Nothing
        THEN Answer(FALSE, "upstream PV does not map to a known component")
        ELSE IF downstream_info = Nothing
        THEN Answer(FALSE, "downstream component does not exist")
        ELSE IF connection_of(downstream_info, connection_type) = upstream_component
        THEN Answer(TRUE, "downstream component explicitly lists upstream as its source")
        ELSE IF connection_of(downstream_info, connection_type) # Nothing
        THEN Answer(FALSE, "no physical connection was found")
        ELSE IF downstream \in Range(services_of(layout_get(layout, upstream_component)))
        THEN Answer(TRUE, "upstream component lists downstream in its services")
        ELSE Answer(FALSE, "no physical connection was found")

\* LatticeModel.are_components_connected
are_components_connected(layout, upstream, downstream, connection_type) ==
    LET upstream_component == _find_component_by_sensor(layout, upstream)
        downstream_info == layout_get(layout, downstream)
    IN  IF upstream_component = Nothing
        THEN Answer(FALSE, "upstream PV does not map to a known component")
        ELSE IF downstream_info = Nothing
        THEN Answer(FALSE, "downstream component does not exist")
        ELSE IF connection_of(downstream_info, connection_type) = upstream_component
        THEN Answer(TRUE, "downstream component explicitly lists upstream as its source")
        ELSE IF downstream \in Range(services_of(layout_get(layout, upstream_component)))
        THEN Answer(TRUE, "upstream component lists downstream in its services")
        ELSE Answer(FALSE, "no physical connection was found")

(***************************************************************************)
(* agents.py: the model template of the diagnostics agent.                 *)
(***************************************************************************)
\* create_agent("AcceleratorDiagnostics", ...): the Kripke model
AcceleratorDiagnostics ==
    KripkeModel({"w0", "w1", "w2", "w3", "w4"},
                {<<"w0", "w1">>, <<"w0", "w2">>, <<"w0", "w3">>, <<"w0", "w4">>},
                [w \in {"w0", "w1", "w2", "w3", "w4"} |->
                    CASE w = "w0" -> {system_nominal}
                      [] w = "w1" -> {rf_fault_reported}
                      [] w = "w2" -> {cooling_fault_reported}
                      [] w = "w3" -> {klystron_fault_reported, rf_power_fault_reported}
                      [] w = "w4" -> {vacuum_fault_reported}],
                "w0")

(***************************************************************************)
(* The inputs of the checks: Kripke models, rule sets, formulas, oracle    *)
(* responses.                                                              *)
(***************************************************************************)
WorldIds == {"w0", "w1"}
ModelProps == {cooling_fault_reported, klystron_fault_reported}
Candidates ==
    {cooling_fault_reported, klystron_fault_reported, rf_fault_reported,
     vacuum_fault_reported}

EdgeSets == {R \in SUBSET (WorldIds \X WorldIds) : Cardinality(R) <= MaxEdges}
PropSets == {S \in SUBSET ModelProps : Cardinality(S) <= MaxTrue}
Valuations == UNION {[D -> PropSets] : D \in SUBSET WorldIds}

\* the models with every world declared and w0 current: all that evaluate reads
\* is their relations and valuations
EvalModels ==
    {KripkeModel(WorldIds, R, V, "w0") : R \in EdgeSets, V \in Valuations}

\* the models of the rule check and the round trip: any declared worlds, and a
\* current world that may be the default "" of a response without one
ModelFamily ==
    {KripkeModel(W, R, V, c) :
        W \in SUBSET WorldIds, R \in EdgeSets, V \in Valuations, c \in {"w0", ""}}

\* "[] ~(cooling_fault_reported & klystron_fault_reported)" alone
ExclusionRule == EXPERT_RULES[3]

RuleSets == {None, List(<<>>), List(<<ExclusionRule>>), List(EXPERT_RULES)}

FormulaProps == ModelProps

RECURSIVE FormulasOfSize(_)
\* the formulas with exactly n connectives
FormulasOfSize(n) ==
    IF n = 0 THEN {<<"proposition", p>> : p \in FormulaProps}
    ELSE {<<op, f>> : op \in {"negation", "necessity", "possibility"},
                      f \in FormulasOfSize(n - 1)}
         \cup UNION {{<<op, f, g>> :
                          op \in {"conjunction", "disjunction", "implication", "equivalence"},
                          f \in FormulasOfSize(i), g \in FormulasOfSize(n - 1 - i)} :
                     i \in 0..(n - 1)}

Formulas == UNION {FormulasOfSize(n) : n \in 0..MaxOps}

\* a collapsed belief state: one world that sees itself
Collapsed(props) == KripkeModel({"w0"}, {<<"w0", "w0">>}, [w \in {"w0"} |-> props], "w0")

\* the template pruned to the cooling fault
Pruned ==
    KripkeModel({"w0", "w2"}, {<<"w0", "w2">>},
                [w \in {"w0", "w2"} |->
                    IF w = "w0" THEN {system_nominal} ELSE {cooling_fault_reported}],
                "w0")

\* an object the update accepts although its current world is none of its worlds
StrayCurrentWorld ==
    Object([keys |-> {"worlds", "current_world"}, worlds |-> JsonList(<<"w0">>),
            current_world |-> "w1"])

\* an object whose worlds are a number
WorldsNoList ==
    Object([keys |-> {"worlds", "current_world"}, worlds |-> [number |-> 5],
            current_world |-> "w1"])

\* oracle answers to a belief update: failures, serialized models, an object
\* without keys, objects whose valuation or worlds are no list, an object that
\* names a current world it does not list
Responses ==
    {Raises, NotJson, NotObject}
    \cup {Object(CHOOSE d \in to_dict(m) : TRUE) :
            m \in {Pruned, Collapsed({klystron_fault_reported}),
                   Collapsed({klystron_fault_reported, rf_power_fault_reported})}}
    \cup {StrayCurrentWorld, WorldsNoList}
    \cup {Object([keys |-> {}]),
          Object([keys |-> {"valuations", "current_world"},
                  valuations |-> [w \in {"w0"} |-> [number |-> 1]],
                  current_world |-> "w1"])}

(***************************************************************************)
(* Calls on the modal-logic layer of an agent.                             *)
(***************************************************************************)
\* the check recorded as the last call
Checked(p, r) ==
    /\ kripke_model' = r.kripke_model
    /\ last' = [op |-> "_is_hypothesis_valid", before |-> kripke_model,
                proposition |-> p, result |-> r.result]

\* a call of _is_hypothesis_valid on the agent
IsHypothesisValid(p) ==
    /\ Checked(p, _is_hypothesis_valid(kripke_model, expert_rules, p))
    /\ UNCHANGED <<expert_rules, main_vars>>

\* a call of to_dict, and the model update_kripke_model builds from its output
ToDictRoundTrip ==
    \E d \in to_dict(kripke_model) :
        /\ last' = [op |-> "to_dict", rebuilt |-> from_dict(d)]
        /\ UNCHANGED <<kripke_model, expert_rules, main_vars>>

\* a call of update_kripke_model, the oracle answering with response
UpdateKripkeModel(response) ==
    /\ kripke_model' = update_kripke_model(kripke_model, response)
    /\ last' = [op |-> "update_kripke_model", before |-> kripke_model,
                response |-> response]
    /\ UNCHANGED <<expert_rules, main_vars>>

\* the call of evaluate whose arguments were drawn
Evaluate ==
    /\ last.op = "pending"
    /\ last' = [op |-> "evaluate", world |-> last.world, formula |-> last.formula,
                result |-> evaluate(kripke_model, last.world, last.formula)]
    /\ UNCHANGED <<kripke_model, expert_rules, main_vars>>

InitModal ==
    /\ no_simulation
    /\ kripke_model \in ModelFamily \cup {AcceleratorDiagnostics}
    /\ expert_rules \in RuleSets
    /\ last = [op |-> "init"]

NextModal ==
    \/ \E p \in Candidates : IsHypothesisValid(p)
    \/ ToDictRoundTrip

SpecModal == InitModal /\ [][NextModal]_vars

InitEval ==
    /\ no_simulation
    /\ kripke_model \in EvalModels
    /\ expert_rules = None
    /\ last \in {[op |-> "pending", world |-> w, formula |-> f] :
                    w \in WorldIds, f \in Formulas}

NextEval == Evaluate

SpecEval == InitEval /\ [][NextEval]_vars

(***************************************************************************)
(* agents.py: the diagnosis routine.                                       *)
(***************************************************************************)
Cooling_Agent == <<"Cooling", "_", "Agent">>
Klystron_Agent == <<"Klystron", "_", "Agent">>
RF_Agent == <<"RF", "_", "Agent">>
Vacuum_Agent == <<"Vacuum", "_", "Agent">>
\* a sender the configuration of diagnose_system_state does not know
Magnet_Agent == <<"Magnet", "_", "Agent">>

\* the component agents create_agent builds
ComponentAgents == {RF_Agent, Cooling_Agent, Klystron_Agent, Vacuum_Agent}

\* agent_to_pv_map
agent_to_pv_map ==
    [a \in ComponentAgents |->
        CASE a = Cooling_Agent -> COOL_valve_position
          [] a = Klystron_Agent -> RF_klystron_output
          [] a = RF_Agent -> RF_cavity
          [] a = Vacuum_Agent -> VAC_sector1_pump_pressure]

\* connection_type_map
connection_type_map ==
    [a \in {Cooling_Agent, Klystron_Agent} |->
        CASE a = Cooling_Agent -> "cooling"
          [] a = Klystron_Agent -> "power"]

\* map.get(key), map.get(key, default)
map_get(map, key, default) == IF key \in DOMAIN map THEN map[key] ELSE default

\* str.lower, word by word
lower(text) ==
    [i \in DOMAIN text |->
        CASE text[i] = "Cooling" -> "cooling"
          [] text[i] = "Klystron" -> "klystron"
          [] text[i] = "RF" -> "rf"
          [] text[i] = "Vacuum" -> "vacuum"
          [] text[i] = "Magnet" -> "magnet"
          [] text[i] = "Agent" -> "agent"
          [] OTHER -> text[i]]

\* text.split('_')[0]: the text before its first underscore
split_0(text) ==
    IF \E i \in DOMAIN text : text[i] = "_"
    THEN SubSeq(text, 1, (CHOOSE i \in DOMAIN text :
                            text[i] = "_" /\ \A k \in 1..(i - 1) : text[k] # "_") - 1)
    ELSE text

\* f"{root_agent.split('_')[0].lower()}_fault_reported"
proposition_for(root_agent) == lower(split_0(root_agent)) \o fault_reported

\* a slip: the two statuses exchanged
process_query_inverted(name, query) ==
    IF name = "LatticeLayoutAgent" /\ "check_connection" \in DOMAIN query
    THEN LET params == query.check_connection
             connection_result ==
                are_components_connected(LATTICE_LAYOUT, params.upstream,
                                         params.downstream, params.type)
         IN  [status |-> IF connection_result.connected THEN "negative" ELSE "affirmative",
              details |-> connection_result.reason]
    ELSE [status |-> "unknown", details |-> "I cannot answer this query."]

\* NeuroSymbolicAgent.process_query on the agent called `name`
process_query(name, query) ==
    IF name = "LatticeLayoutAgent" /\ "check_connection" \in DOMAIN query
    THEN LET params == query.check_connection
             connection_result ==
                are_components_connected(LATTICE_LAYOUT, params.upstream,
                                         params.downstream, params.type)
         IN  [status |-> IF connection_result.connected THEN "affirmative" ELSE "negative",
              details |-> connection_result.reason]
    ELSE [status |-> "unknown", details |-> "I cannot answer this query."]

\* what the oracle's theory call yields: None (it raised, or the content was no
\* JSON), or what json.loads made of the content: a JSON object with some of the
\* three keys, or a value that is no object
NoTheory == [kind |-> "none"]
\* JSON true, or a number other than 0: a value that is true and has no `in`
Scalar == [kind |-> "scalar"]
\* an object; `unhashable` holds the keys whose value is a JSON list
TheoryWith(keys, root_cause_agent, symptom_agent, unhashable) ==
    [kind |-> "object", keys |-> keys, root_cause_agent |-> root_cause_agent,
     symptom_agent |-> symptom_agent, unhashable |-> unhashable]
Theory(keys, root_cause_agent, symptom_agent) ==
    TheoryWith(keys, root_cause_agent, symptom_agent, {})

\* how a run of diagnose_system_state ends: the list it returns or the exception
\* that leaves it, the calls it made in their order, and the live model after it
Returns(result, calls, model) ==
    [raised |-> "", result |-> result, calls |-> calls, kripke_model |-> model]
RaisesError(error, calls, model) ==
    [raised |-> error, result |-> <<>>, calls |-> calls, kripke_model |-> model]

\* a slip: a single report is taken for enough
too_few_reports_zero(reports) == Cardinality(reports) < 1

\* len(reports) < 2
too_few_reports(reports) == Cardinality(reports) < 2

\* a slip: the pair is returned as the oracle gave it
reversed_pair_unswapped(root_agent, symptom_agent) == <<root_agent, symptom_agent>>

\* root_agent, symptom_agent = symptom_agent, root_agent, and the list returned
reversed_pair(root_agent, symptom_agent) == <<symptom_agent, root_agent>>

\* a slip: the connectivity query is made whatever the rule check said
verified_unvalidated(proposition, valid, upstream_pv, downstream_pv, conn_type, response) ==
    [valid |-> TRUE,
     mapped |-> upstream_pv # Nothing /\ downstream_pv # Nothing,
     affirmative |-> /\ upstream_pv # Nothing /\ downstream_pv # Nothing
                     /\ response.status = "affirmative",
     kripke_model |-> valid.kripke_model,
     calls |-> <<[call |-> "_is_hypothesis_valid", proposition |-> proposition,
                  result |-> valid.result]>>
               \o IF upstream_pv # Nothing /\ downstream_pv # Nothing
                  THEN <<[call |-> "process_query",
                          query |-> [upstream |-> upstream_pv, downstream |-> downstream_pv,
                                     type |-> conn_type],
                          status |-> response.status]>>
                  ELSE <<>>]

\* the connectivity query of one direction, lines 204-214 and 235-245, after the
\* rule check `valid` of the root's proposition
verified(proposition, valid, upstream_pv, downstream_pv, conn_type, response) ==
    [valid |-> valid.result,
     mapped |-> upstream_pv # Nothing /\ downstream_pv # Nothing,
     affirmative |-> /\ valid.result
                     /\ upstream_pv # Nothing /\ downstream_pv # Nothing
                     /\ response.status = "affirmative",
     kripke_model |-> valid.kripke_model,
     calls |-> <<[call |-> "_is_hypothesis_valid", proposition |-> proposition,
                  result |-> valid.result]>>
               \o IF valid.result /\ upstream_pv # Nothing /\ downstream_pv # Nothing
                  THEN <<[call |-> "process_query",
                          query |-> [upstream |-> upstream_pv, downstream |-> downstream_pv,
                                     type |-> conn_type],
                          status |-> response.status]>>
                  ELSE <<>>]

queried(proposition, valid, upstream_pv, downstream_pv, conn_type) ==
    verified(proposition, valid, upstream_pv, downstream_pv, conn_type,
             process_query("LatticeLayoutAgent",
                           [check_connection |->
                                [upstream |-> upstream_pv, downstream |-> downstream_pv,
                                 type |-> conn_type]]))

\* stages 2 and 3 for one direction (lines 200-214 and 229-245): the rule check
\* of the root's proposition, then the connectivity query
attempt(model, rules, root_agent, symptom_agent) ==
    queried(proposition_for(root_agent),
            _is_hypothesis_valid(model, rules, proposition_for(root_agent)),
            map_get(agent_to_pv_map, root_agent, Nothing),
            map_get(agent_to_pv_map, symptom_agent, Nothing),
            map_get(connection_type_map, root_agent, "unknown"))

\* the belief update at the end of a resolved run, as a call
UpdateCall(response) == [call |-> "update_kripke_model", response |-> response.kind]

\* a slip: the reversed pair is taken without looking at the reversed query
self_correction_unverified(root_agent, symptom_agent, response, calls, reversed) ==
    IF ~reversed.valid \/ ~reversed.mapped
    THEN Returns(<<>>, calls \o reversed.calls, reversed.kripke_model)
    ELSE Returns(reversed_pair(root_agent, symptom_agent),
                 calls \o reversed.calls \o <<UpdateCall(response)>>,
                 update_kripke_model(reversed.kripke_model, response))

\* lines 226-256: the reversed direction
self_correction(root_agent, symptom_agent, response, calls, reversed) ==
    IF ~reversed.valid \/ ~reversed.mapped
    THEN Returns(<<>>, calls \o reversed.calls, reversed.kripke_model)
    ELSE IF reversed.affirmative
    THEN Returns(reversed_pair(root_agent, symptom_agent),
                 calls \o reversed.calls \o <<UpdateCall(response)>>,
                 update_kripke_model(reversed.kripke_model, response))
    ELSE Returns(<<>>, calls \o reversed.calls, reversed.kripke_model)

\* lines 199-256: stages 2 and 3, and the self-correction when the lattice check
\* of the theory fails
validate_and_verify(rules, theory, response, calls, forward) ==
    IF ~forward.valid \/ ~forward.mapped
    THEN Returns(<<>>, calls \o forward.calls, forward.kripke_model)
    ELSE IF forward.affirmative
    THEN IF "causal_theory" \notin theory.keys
         THEN RaisesError("KeyError", calls \o forward.calls, forward.kripke_model)
         ELSE Returns(<<theory.root_cause_agent, theory.symptom_agent>>,
                      calls \o forward.calls \o <<UpdateCall(response)>>,
                      update_kripke_model(forward.kripke_model, response))
    ELSE self_correction(theory.root_cause_agent, theory.symptom_agent, response,
                         calls \o forward.calls,
                         attempt(forward.kripke_model, rules, theory.symptom_agent,
                                 theory.root_cause_agent))

\* the call of the oracle for a theory
TheoryCall == <<[call |-> "_get_causal_theory_from_llm"]>>

\* NeuroSymbolicAgent.diagnose_system_state, the oracle answering the theory
\* request with `theory` and the belief update with `response`
diagnose_system_state(model, rules, reports, theory, response) ==
    IF too_few_reports(reports) THEN Returns(<<>>, <<>>, model)
    ELSE IF theory.kind = "none" THEN Returns(<<>>, TheoryCall, model)
    \* `"root_cause_agent" not in theory` on a value without `in`
    ELSE IF theory.kind = "scalar" THEN RaisesError("TypeError", TheoryCall, model)
    ELSE IF \/ theory.keys = {}
            \/ "root_cause_agent" \notin theory.keys
            \/ "symptom_agent" \notin theory.keys
    THEN Returns(<<>>, TheoryCall, model)
    \* `root_agent not in reports or symptom_agent not in reports`: the lookup of
    \* a list in a dict raises
    ELSE IF "root_cause_agent" \in theory.unhashable
    THEN RaisesError("TypeError", TheoryCall, model)
    ELSE IF theory.root_cause_agent \notin reports THEN Returns(<<>>, TheoryCall, model)
    ELSE IF "symptom_agent" \in theory.unhashable
    THEN RaisesError("TypeError", TheoryCall, model)
    ELSE IF theory.symptom_agent \notin reports THEN Returns(<<>>, TheoryCall, model)
    ELSE validate_and_verify(rules, theory, response, TheoryCall,
                             attempt(model, rules, theory.root_cause_agent,
                                     theory.symptom_agent))

(***************************************************************************)
(* Calls on the lattice knowledge base.                                    *)
(***************************************************************************)
\* the ids a query is made with: the components, the ids they refer to, the
\* sensors, and ids no component lists
QueryIds ==
    {LATTICE_LAYOUT[i].name : i \in DOMAIN LATTICE_LAYOUT}
    \cup UNION {Range(LATTICE_LAYOUT[i].sensors) \cup Range(LATTICE_LAYOUT[i].services) :
                    i \in DOMAIN LATTICE_LAYOUT}
    \cup {BL_1, COOL_water_pressure_raw, COOL_water_temp, RF_cavity_temp,
          RF_klystron_output_raw}

ConnectionTypes == {"cooling", "power", "beamline", "vacuum", "unknown"}

\* the call of are_components_connected whose arguments were drawn
AreComponentsConnected ==
    /\ last.op = "pending_query"
    /\ last' = [op |-> "are_components_connected", upstream |-> last.upstream,
                downstream |-> last.downstream, type |-> last.type,
                answer |-> are_components_connected(LATTICE_LAYOUT, last.upstream,
                                                    last.downstream, last.type)]
    /\ UNCHANGED <<kripke_model, expert_rules, main_vars>>

InitLattice ==
    /\ no_simulation
    /\ kripke_model = KripkeModel({}, {}, <<>>, "")
    /\ expert_rules = None
    /\ last \in {[op |-> "pending_query", upstream |-> u, downstream |-> d, type |-> t] :
                    u \in QueryIds, d \in QueryIds, t \in ConnectionTypes}

\* a call of _find_component_by_sensor with the drawn upstream id
FindComponentBySensor ==
    /\ last.op = "pending_query"
    /\ last' = [op |-> "_find_component_by_sensor", sensor_pv |-> last.upstream,
                result |-> _find_component_by_sensor(LATTICE_LAYOUT, last.upstream)]
    /\ UNCHANGED <<kripke_model, expert_rules, main_vars>>

NextLattice ==
    \/ AreComponentsConnected
    \/ FindComponentBySensor

SpecLattice == InitLattice /\ [][NextLattice]_vars

(***************************************************************************)
(* Calls of the diagnosis routine.                                         *)
(***************************************************************************)
\* the senders of a pending-reports table
AllSenders == ComponentAgents \cup {Magnet_Agent}

TheoryKeys == {"root_cause_agent", "symptom_agent", "causal_theory"}

\* the oracle's theories: none, objects that lack keys, and every pair of senders
\* with and without the explanation text
Theories ==
    {NoTheory, Theory({}, RF_Agent, RF_Agent),
     Theory({"root_cause_agent", "causal_theory"}, Cooling_Agent, RF_Agent),
     Theory({"symptom_agent", "causal_theory"}, Cooling_Agent, RF_Agent),
     Scalar,
     TheoryWith(TheoryKeys, Cooling_Agent, RF_Agent, {"root_cause_agent"}),
     TheoryWith(TheoryKeys, Cooling_Agent, RF_Agent, {"symptom_agent"}),
     TheoryWith(TheoryKeys, Magnet_Agent, RF_Agent, {"symptom_agent"})}
    \cup {Theory(K, r, s) : K \in {TheoryKeys, {"root_cause_agent", "symptom_agent"}},
                            r \in AllSenders, s \in AllSenders}

\* the live model of the diagnostics agent: its template, or what a belief
\* update has put in its place
DiagnosticsModels ==
    {update_kripke_model(AcceleratorDiagnostics, r) : r \in Responses}

\* the run recorded as the last call
Ran(run) ==
    /\ kripke_model' = run.kripke_model
    /\ last' = [op |-> "diagnose_system_state", before |-> kripke_model,
                reports |-> last.reports, theory |-> last.theory,
                response |-> last.response, raised |-> run.raised,
                result |-> run.result, calls |-> run.calls]

\* the call of diagnose_system_state whose arguments and oracle answers were drawn
Diagnose ==
    /\ last.op = "pending_diagnosis"
    /\ Ran(diagnose_system_state(kripke_model, expert_rules, last.reports,
                                 last.theory, last.response))
    /\ UNCHANGED <<expert_rules, main_vars>>

InitDiagnose ==
    /\ no_simulation
    /\ kripke_model \in DiagnosticsModels
    /\ expert_rules = List(EXPERT_RULES)
    /\ last \in {[op |-> "pending_diagnosis", reports |-> reports, theory |-> theory,
                  response |-> response] :
                    reports \in SUBSET AllSenders, theory \in Theories,
                    response \in Responses}

NextDiagnose == Diagnose

SpecDiagnose == InitDiagnose /\ [][NextDiagnose]_vars

(***************************************************************************)
(* main.py: the simulation loop.                                           *)
(*                                                                         *)
(* The process variables and the text of a report come from the EPICS      *)
(* simulator and the oracle: which agents report in a tick is any subset   *)
(* of the component agents, and a report is known by its sender, the key   *)
(* it is stored under.                                                     *)
(***************************************************************************)
AcceleratorDiagnosticsAgent == <<"AcceleratorDiagnostics">>
LatticeLayoutAgent == <<"LatticeLayoutAgent">>

\* scenarios.py: agents_to_create of the three scenarios
SCENARIOS ==
    {{Cooling_Agent, RF_Agent, AcceleratorDiagnosticsAgent, LatticeLayoutAgent},
     {RF_Agent, Klystron_Agent, AcceleratorDiagnosticsAgent, LatticeLayoutAgent},
     {RF_Agent, Klystron_Agent, Vacuum_Agent, AcceleratorDiagnosticsAgent,
      LatticeLayoutAgent}}

\* {"sender": agent.name, **report}
Report(sender) == [sender |-> sender]

\* reports.keys()
keys(reports) == {r.sender : r \in reports}

\* for r in new_reports_this_tick: unresolved_reports[r['sender']] = r
received(reports, new_reports_this_tick) ==
    {r \in reports : r.sender \notin keys(new_reports_this_tick)}
        \cup new_reports_this_tick

\* a slip: a resolved diagnosis empties the table
clear_resolved_all(reports, resolved_agents) ==
    IF resolved_agents = <<>> THEN reports ELSE {}

\* lines 87-91: del unresolved_reports[agent_name] for the resolved agents
clear_resolved(reports, resolved_agents) ==
    IF resolved_agents = <<>> THEN reports
    ELSE {r \in reports : r.sender \notin Range(resolved_agents)}

\* the oracle's theories in a simulation: none, a value that is no object, an
\* object without the symptom, and the pairs of created component agents with
\* and without the explanation
SimulationTheories ==
    {NoTheory, Scalar, Theory({"root_cause_agent", "causal_theory"}, RF_Agent, RF_Agent)}
    \cup {Theory(TheoryKeys, r, s) : r \in agents \cap ComponentAgents,
                                     s \in agents \cap ComponentAgents}
    \cup {Theory({"root_cause_agent", "symptom_agent"}, r, s) :
            r \in agents \cap {Klystron_Agent}, s \in agents \cap {RF_Agent}}

\* the oracle's answers to a belief update in a simulation
SimulationResponses ==
    {Raises, StrayCurrentWorld,
     Object(CHOOSE d \in to_dict(Collapsed({klystron_fault_reported,
                                            rf_power_fault_reported})) : TRUE)}

\* the oracle failed in the theory call; the belief update of a run: not
\* requested, failed (the model is kept), or applied
theory_failed(theory) ==
    \/ theory.kind # "object"
    \/ ~({"root_cause_agent", "symptom_agent"} \subseteq theory.keys)
update_outcome(run, response) ==
    IF UpdateCall(response) \notin Range(run.calls) THEN "none"
    ELSE IF response.kind # "object" THEN "failed"
    ELSE "applied"

\* lines 76-91: the reports are in the table, the diagnosis has run; an
\* exception of the diagnosis leaves main, the table as it is
Analysed(new_reports_this_tick, reports, theory, response, run) ==
    /\ kripke_model' = run.kripke_model
    /\ unresolved_reports' =
            IF run.raised # "" THEN reports ELSE clear_resolved(reports, run.result)
    /\ last' = [op |-> "tick", raised |-> run.raised, analysed |-> TRUE,
                new |-> keys(new_reports_this_tick), result |-> run.result,
                theory_failed |-> theory_failed(theory),
                update |-> update_outcome(run, response)]

\* line 75 is false: nothing to analyse in this tick
NotAnalysed(new_reports_this_tick) ==
    /\ last' = [op |-> "tick", raised |-> "", analysed |-> FALSE,
                new |-> keys(new_reports_this_tick), result |-> <<>>,
                theory_failed |-> FALSE, update |-> "none"]
    /\ UNCHANGED <<kripke_model, unresolved_reports>>

\* a slip: the analysis runs on every tick, new report or not
analysis_guard_every_tick(agent_names, new_reports_this_tick) ==
    /\ AcceleratorDiagnosticsAgent \in agent_names
    /\ LatticeLayoutAgent \in agent_names

\* line 75: diagnostics_agent and lattice_agent and new_reports_this_tick
analysis_guard(agent_names, new_reports_this_tick) ==
    /\ AcceleratorDiagnosticsAgent \in agent_names
    /\ LatticeLayoutAgent \in agent_names
    /\ new_reports_this_tick # {}

\* one pass of the loop in main, lines 54-93
Tick ==
    /\ tick < Ticks
    /\ tick < MaxTicks
    /\ last.raised = ""
    /\ tick' = tick + 1
    /\ \E senders \in SUBSET (agents \cap ComponentAgents) :
        IF analysis_guard(agents, {Report(a) : a \in senders})
        THEN \E theory \in SimulationTheories, response \in SimulationResponses :
                Analysed({Report(a) : a \in senders},
                         received(unresolved_reports, {Report(a) : a \in senders}),
                         theory, response,
                         diagnose_system_state(
                            kripke_model, expert_rules,
                            keys(received(unresolved_reports,
                                          {Report(a) : a \in senders})),
                            theory, response))
        ELSE NotAnalysed({Report(a) : a \in senders})
    /\ UNCHANGED <<expert_rules, agents>>

\* main, lines 47-51: the agents of the chosen scenario, an empty table
Init ==
    /\ agents \in SCENARIOS
    /\ kripke_model = AcceleratorDiagnostics
    /\ expert_rules = List(EXPERT_RULES)
    /\ unresolved_reports = {}
    /\ tick = 0
    /\ last = [op |-> "main", raised |-> ""]

Next == Tick

Spec == Init /\ [][Next]_vars

(***************************************************************************)
(* agents.py: create_agent, and the belief updates of an agent after it.   *)
(***************************************************************************)
rf_ok == <<"rf", "_", "ok">>
rf_power_low == <<"rf", "_", "power", "_", "low">>
cooling_ok == <<"cooling", "_", "ok">>
pressure_low == <<"pressure", "_", "low">>
klystron_ok == <<"klystron", "_", "ok">>
output_power_low == <<"output", "_", "power", "_", "low">>
vacuum_ok == <<"vacuum", "_", "ok">>
pressure_high == <<"pressure", "_", "high">>

\* the agent types create_agent knows
AgentTypes == ComponentAgents \cup {AcceleratorDiagnosticsAgent, LatticeLayoutAgent}

\* the model of a component agent: w0 is nominal and sees the fault world w1
component_model(ok, fault) ==
    KripkeModel({"w0", "w1"}, {<<"w0", "w1">>},
                [w \in {"w0", "w1"} |-> IF w = "w0" THEN ok ELSE fault], "w0")

\* create_agent: the Kripke model the agent is built with (current_world is the
\* default 'w0' of KripkeModel.__init__ unless given)
create_agent(agent_type) ==
    CASE agent_type = RF_Agent ->
            KripkeModel({"w0", "w1", "w2"}, {<<"w0", "w1">>, <<"w0", "w2">>},
                        [w \in {"w0", "w1", "w2"} |->
                            CASE w = "w0" -> {rf_ok}
                              [] w = "w1" -> {rf_temp_high}
                              [] w = "w2" -> {rf_power_low}],
                        "w0")
      [] agent_type = Cooling_Agent ->
            component_model({cooling_ok}, {pressure_low, cooling_fault_reported})
      [] agent_type = Klystron_Agent ->
            component_model({klystron_ok}, {output_power_low, klystron_fault_reported})
      [] agent_type = Vacuum_Agent ->
            component_model({vacuum_ok}, {pressure_high, vacuum_fault_reported})
      [] agent_type = AcceleratorDiagnosticsAgent -> AcceleratorDiagnostics
      [] agent_type = LatticeLayoutAgent -> KripkeModel({}, {}, <<>>, "")

\* expert_rules of a created agent: the diagnostics agent gets EXPERT_RULES
rules_of(agent_type) ==
    IF agent_type = AcceleratorDiagnosticsAgent THEN List(EXPERT_RULES) ELSE None

InitUpdate ==
    /\ no_simulation
    /\ \E agent_type \in AgentTypes :
        /\ kripke_model = create_agent(agent_type)
        /\ expert_rules = rules_of(agent_type)
    /\ last = [op |-> "create_agent"]

NextUpdate == \E response \in Responses : UpdateKripkeModel(response)

SpecUpdate == InitUpdate /\ [][NextUpdate]_vars

(***************************************************************************)
(* Calls of the parser on chains of binary operators.                      *)
(***************************************************************************)
\* the operands of a chain, by their place
ChainProps ==
    << cooling_fault_reported, klystron_fault_reported, rf_fault_reported,
       vacuum_fault_reported, rf_power_fault_reported >>

BinaryOps == {BinaryLevels[l].op : l \in DOMAIN BinaryLevels}
\* what stands before an operand: nothing or one unary operator
Prefixes == {"", "~", "[]", "<>"}

\* the chains: each operand with its prefix, an operator between neighbours
Chains ==
    UNION {[prefixes : [1..n -> Prefixes], ops : [1..(n - 1) -> BinaryOps]] :
            n \in 1..MaxOperands}

\* the tokens of a chain, as the lexer yields them
RECURSIVE chain_text(_, _)
chain_text(chain, i) ==
    IF i > Len(chain.prefixes) THEN <<>>
    ELSE (IF i > 1 THEN <<Lit(chain.ops[i - 1])>> ELSE <<>>)
         \o (IF chain.prefixes[i] = "" THEN <<>> ELSE <<Lit(chain.prefixes[i])>>)
         \o <<Name(ChainProps[i])>>
         \o chain_text(chain, i + 1)

\* the call of ModalParser.parse on the text of the drawn chain
Parse ==
    /\ last.op = "pending_parse"
    /\ last' = [op |-> "parse", chain |-> last.chain,
                result |-> parse(chain_text(last.chain, 1))]
    /\ UNCHANGED <<kripke_model, expert_rules, main_vars>>

InitParse ==
    /\ no_simulation
    /\ kripke_model = KripkeModel({}, {}, <<>>, "")
    /\ expert_rules = None
    /\ last \in {[op |-> "pending_parse", chain |-> c] : c \in Chains}

NextParse == Parse

SpecParse == InitParse /\ [][NextParse]_vars

(***************************************************************************)
(* The diagnosis routine: properties checked under SpecDiagnose.           *)
(***************************************************************************)
DiagnosisDone == last.op = "diagnose_system_state"

\* the theory names a root and a symptom that both have a pending report
TheoryUsable ==
    /\ last.theory.kind = "object"
    /\ {"root_cause_agent", "symptom_agent"} \subseteq last.theory.keys
    /\ last.theory.unhashable = {}
    /\ {last.theory.root_cause_agent, last.theory.symptom_agent} \subseteq last.reports

\* the rule check passes for the proposition of `root` on the model the run began with
PassesValidation(root) ==
    _is_hypothesis_valid(last.before, expert_rules, proposition_for(root)).result

\* the lattice confirms that `root` is upstream of `symptom`
PassesConnectivity(root, symptom) ==
    /\ root \in DOMAIN agent_to_pv_map
    /\ symptom \in DOMAIN agent_to_pv_map
    /\ are_components_connected(LATTICE_LAYOUT, agent_to_pv_map[root],
                                agent_to_pv_map[symptom],
                                map_get(connection_type_map, root, "unknown")).connected

\* the case of C1: the theory passes validation and fails the lattice check, the
\* swapped theory passes both
ForwardFailsSwappedPasses ==
    /\ DiagnosisDone
    /\ Cardinality(last.reports) >= 2
    /\ TheoryUsable
    /\ PassesValidation(last.theory.root_cause_agent)
    /\ ~PassesConnectivity(last.theory.root_cause_agent, last.theory.symptom_agent)
    /\ PassesValidation(last.theory.symptom_agent)
    /\ PassesConnectivity(last.theory.symptom_agent, last.theory.root_cause_agent)

\* C1: with two or more reports, when the oracle's (root, symptom) pair passes
\* validation but fails the forward connectivity check and the swapped pair
\* passes both, the routine returns [symptom, root] and not [root, symptom].
C1_SwappedPairReturned ==
    ForwardFailsSwappedPasses =>
        /\ last.raised = ""
        /\ last.result = <<last.theory.symptom_agent, last.theory.root_cause_agent>>
        /\ last.result # <<last.theory.root_cause_agent, last.theory.symptom_agent>>

C1_Witness ==
    /\ ForwardFailsSwappedPasses
    /\ last.theory.root_cause_agent = RF_Agent
    /\ last.result = <<Cooling_Agent, RF_Agent>>

\* C2: with fewer than two pending reports the routine returns an empty list
\* and calls neither the oracle (theory request, belief update) nor the lattice.
C2_TooFewReportsNoCalls ==
    (DiagnosisDone /\ Cardinality(last.reports) < 2) =>
        /\ last.raised = ""
        /\ last.result = <<>>
        /\ last.calls = <<>>
        /\ kripke_model = last.before

C2_Witness ==
    /\ DiagnosisDone
    /\ Cardinality(last.reports) = 1
    /\ TheoryUsable
    /\ last.theory.keys = TheoryKeys
    /\ last.result = <<>>

(***************************************************************************)
(* The rule check and the round trip: properties checked under SpecModal.  *)
(***************************************************************************)
ValidityChecked == last.op = "_is_hypothesis_valid"

\* C3: with the exclusion rule alone and klystron_fault_reported already true
\* in the current world, the rule check of cooling_fault_reported returns false.
C3_ExclusionRuleRejects ==
    (/\ ValidityChecked
     /\ expert_rules = List(<<ExclusionRule>>)
     /\ klystron_fault_reported \in valuations_get(last.before, last.before.current_world)
     /\ last.proposition = cooling_fault_reported)
        => last.result = FALSE

\* C4: a call of the rule check leaves the live model as it was: worlds,
\* relations, valuations (and the worlds that have an entry) and current world.
C4_RuleCheckLeavesModel ==
    ValidityChecked =>
        /\ kripke_model.worlds = last.before.worlds
        /\ kripke_model.relations = last.before.relations
        /\ DOMAIN kripke_model.valuations = DOMAIN last.before.valuations
        /\ kripke_model.valuations = last.before.valuations
        /\ kripke_model.current_world = last.before.current_world

\* a check that failed on a model whose current world had a set to add to
C4_Witness ==
    /\ ValidityChecked
    /\ ~last.result
    /\ last.before.current_world \in DOMAIN last.before.valuations
    /\ last.proposition \notin last.before.valuations[last.before.current_world]

\* the model with the candidate added to the valuation of its current world
WithCandidate(model, p) ==
    [model EXCEPT !.valuations =
        [w \in DOMAIN model.valuations \cup {model.current_world} |->
            IF w = model.current_world THEN valuations_get(model, w) \cup {p}
            ELSE model.valuations[w]]]

\* C5: the rule check returns true exactly when every rule is true at the
\* current world of the model with the candidate added there; with an empty
\* or absent rule set it returns true.
C5_RuleCheckResult ==
    ValidityChecked =>
        /\ last.result =
            \A i \in DOMAIN expert_rules.list :
                evaluate(WithCandidate(last.before, last.proposition),
                         last.before.current_world, parse(expert_rules.list[i]).ast)
        /\ (expert_rules.is_none \/ expert_rules.list = <<>>) => last.result

\* a check that the candidate itself made fail, and one on a fresh entry
C5_Witness ==
    /\ ValidityChecked
    /\ ~last.result
    /\ expert_rules = List(EXPERT_RULES)
    /\ \A i \in DOMAIN expert_rules.list :
            evaluate(last.before, last.before.current_world, parse(expert_rules.list[i]).ast)

\* C8: the model rebuilt from a to_dict output as update_kripke_model builds it
\* has the worlds, relation pairs, valuation mapping and current world of the
\* model serialized.
C8_RoundTrip ==
    last.op = "to_dict" =>
        /\ last.rebuilt.worlds = kripke_model.worlds
        /\ last.rebuilt.relations = kripke_model.relations
        /\ last.rebuilt.valuations = kripke_model.valuations
        /\ last.rebuilt.current_world = kripke_model.current_world

C8_Witness ==
    /\ last.op = "to_dict"
    /\ Cardinality(kripke_model.relations) >= 2
    /\ Cardinality(kripke_model.worlds) >= 2
    /\ kripke_model.current_world = "w0"
    /\ \E w \in DOMAIN kripke_model.valuations : kripke_model.valuations[w] # {}
    /\ \E w \in kripke_model.worlds : w \notin DOMAIN kripke_model.valuations

(***************************************************************************)
(* The evaluator: properties checked under SpecEval.                       *)
(***************************************************************************)
Evaluated == last.op = "evaluate"

NoOutgoingEdge(model, world) == \A r \in model.relations : r[1] # world

\* C6: at a world without outgoing edges Necessity(f) is true and
\* Possibility(f) is false, whatever the valuation.
C6_VacuousModalities ==
    (Evaluated /\ NoOutgoingEdge(kripke_model, last.world)) =>
        /\ last.formula[1] = "necessity" => last.result
        /\ last.formula[1] = "possibility" => ~last.result

\* a necessity that holds at a dead end although its body is false everywhere
C6_Witness ==
    /\ Evaluated
    /\ NoOutgoingEdge(kripke_model, last.world)
    /\ last.formula[1] = "necessity"
    /\ kripke_model.relations # {}
    /\ \A w \in WorldIds : ~evaluate(kripke_model, w, last.formula[2])
    /\ last.result

\* C7: Implication(f, g) and Disjunction(Negation(f), g) evaluate alike.
C7_ImplicationAsDisjunction ==
    (Evaluated /\ last.formula[1] = "implication") =>
        last.result =
            evaluate(kripke_model, last.world,
                     <<"disjunction", <<"negation", last.formula[2]>>, last.formula[3]>>)

C7_Witness ==
    /\ Evaluated
    /\ last.formula[1] = "implication"
    /\ evaluate(kripke_model, last.world, last.formula[2])
    /\ ~last.result

(***************************************************************************)
(* The connectivity query: properties checked under SpecLattice.           *)
(***************************************************************************)
Queried == last.op = "are_components_connected"

IsComponent(id) == \E i \in DOMAIN LATTICE_LAYOUT : LATTICE_LAYOUT[i].name = id

\* the downstream component names U under the relation type
ListsAsSource(downstream, type, U) ==
    \E i \in DOMAIN LATTICE_LAYOUT :
        /\ LATTICE_LAYOUT[i].name = downstream
        /\ "connected_to" \in LATTICE_LAYOUT[i].has
        /\ type \in DOMAIN LATTICE_LAYOUT[i].connected_to
        /\ LATTICE_LAYOUT[i].connected_to[type] = U

\* U has the downstream id in its services
Services(U, downstream) ==
    \E i \in DOMAIN LATTICE_LAYOUT :
        /\ LATTICE_LAYOUT[i].name = U
        /\ "services" \in LATTICE_LAYOUT[i].has
        /\ \E j \in DOMAIN LATTICE_LAYOUT[i].services :
                LATTICE_LAYOUT[i].services[j] = downstream

\* C9: connected is true exactly when the upstream id resolves to a component
\* U, the downstream id is a component of the layout, and the downstream
\* component names U under the relation type or U lists it in its services.
C9_ConnectedIff ==
    Queried =>
        LET U == _find_component_by_sensor(LATTICE_LAYOUT, last.upstream) IN
        last.answer.connected =
            (/\ U # Nothing
             /\ IsComponent(last.downstream)
             /\ \/ ListsAsSource(last.downstream, last.type, U)
                \/ Services(U, last.downstream))

\* connected through the services list alone
C9_Witness ==
    /\ Queried
    /\ last.answer.connected
    /\ ~ListsAsSource(last.downstream, last.type,
                      _find_component_by_sensor(LATTICE_LAYOUT, last.upstream))

\* C10: COOL:water_pressure resolves to COOL:primary_loop, and the query
\* (COOL:water_pressure, RF:cavity, cooling) is answered connected by the
\* branch in which RF:cavity names COOL:primary_loop as its cooling source.
C10_CoolingFeedsCavity ==
    (/\ Queried
     /\ last.upstream = COOL_water_pressure
     /\ last.downstream = RF_cavity
     /\ last.type = "cooling") =>
        /\ _find_component_by_sensor(LATTICE_LAYOUT, COOL_water_pressure) = COOL_primary_loop
        /\ ListsAsSource(RF_cavity, "cooling", COOL_primary_loop)
        /\ last.answer.connected
        /\ last.answer.reason = "downstream component explicitly lists upstream as its source"

C10_Witness ==
    /\ Queried
    /\ last.upstream = COOL_water_pressure
    /\ last.downstream = RF_cavity
    /\ last.type = "cooling"
    /\ last.answer.connected

(***************************************************************************)
(* The simulation loop: properties checked under Spec.                     *)
(***************************************************************************)
\* the table a cycle's diagnosis is given: the reports held before the tick and
\* the reports of the tick (after the step, those named in last)
PendingAtAttempt == unresolved_reports \cup {Report(a) : a \in last'.new}

C12_OracleFailureLeavesState ==
    [][(last'.analysed /\ (last'.theory_failed \/ last'.update = "failed")) =>
            /\ unresolved_reports' = PendingAtAttempt
            /\ kripke_model' = kripke_model]_vars

(***************************************************************************)
(* The belief update: properties checked under SpecUpdate.                 *)
(***************************************************************************)
Updated == last.op = "update_kripke_model"

\* every attribute of the model is what the response holds under its key, or the
\* default of the key the response lacks
BuiltFromResponse(model, response) ==
    /\ response.kind = "object"
    /\ IF "worlds" \in response.dict.keys
       THEN /\ "list" \in DOMAIN response.dict.worlds
            /\ model.worlds = Range(response.dict.worlds.list)
       ELSE model.worlds = {}
    /\ IF "relations" \in response.dict.keys
       THEN model.relations = {r.list : r \in Range(response.dict.relations.list)}
       ELSE model.relations = {}
    /\ IF "valuations" \in response.dict.keys
       THEN /\ DOMAIN model.valuations = DOMAIN response.dict.valuations
            /\ \A w \in DOMAIN model.valuations :
                /\ "list" \in DOMAIN response.dict.valuations[w]
                /\ model.valuations[w] = Range(response.dict.valuations[w].list)
       ELSE DOMAIN model.valuations = {}
    /\ IF "current_world" \in response.dict.keys
       THEN model.current_world = response.dict.current_world
       ELSE model.current_world = ""

\* C13: after every call of update_kripke_model, whatever the oracle returned or
\* raised, the live model is the model held before the call or a model built
\* entirely from the response (its values or the defaults); no state mixes
\* attributes of the old model with attributes of the response.
C13_ReplacedOrUntouched ==
    Updated => \/ kripke_model = last.before
               \/ BuiltFromResponse(kripke_model, last.response)

\* the response fails after its valuations were read: the model is the old one
C13_Witness ==
    /\ Updated
    /\ last.response = WorldsNoList
    /\ last.before = AcceleratorDiagnostics
    /\ kripke_model = AcceleratorDiagnostics

\* C14: in every state reachable from create_agent through belief updates, every
\* world that is an endpoint of a relation pair or a key of the valuations is one
\* of worlds, and current_world is one of worlds whenever worlds is not empty.
C14_WorldsClosed ==
    /\ \A r \in kripke_model.relations :
            r[1] \in kripke_model.worlds /\ r[2] \in kripke_model.worlds
    /\ DOMAIN kripke_model.valuations \subseteq kripke_model.worlds
    /\ kripke_model.worlds # {} => kripke_model.current_world \in kripke_model.worlds

(***************************************************************************)
(* Sensor resolution: checked under SpecLattice.                           *)
(***************************************************************************)
Resolved == last.op = "_find_component_by_sensor"

\* the id is an element of the sensors list of the component called `name`
ListedBy(name, id) ==
    \E i \in DOMAIN LATTICE_LAYOUT :
        /\ LATTICE_LAYOUT[i].name = name
        /\ "sensors" \in LATTICE_LAYOUT[i].has
        /\ \E j \in DOMAIN LATTICE_LAYOUT[i].sensors : LATTICE_LAYOUT[i].sensors[j] = id

Listed(id) == \E i \in DOMAIN LATTICE_LAYOUT : ListedBy(LATTICE_LAYOUT[i].name, id)

\* the fallback heuristics, in their order: the text looked for, the owner given
Heuristics ==
    << [text |-> COOL_water_pressure, owner |-> COOL_primary_loop],
       [text |-> PS_quad_1A, owner |-> PS_quad_1A],
       [text |-> VAC_sector1_pump, owner |-> VAC_sector1_pump] >>

Matches(id) == {h \in DOMAIN Heuristics : Contains(id, Heuristics[h].text)}

\* C15: _find_component_by_sensor gives, for an id listed in some sensors list,
\* a component whose sensors list holds the id itself; for an id in no
\* sensors list, what the fallback heuristics give; and none for an id that is
\* in no sensors list and matches no heuristic.
C15_SensorResolution ==
    Resolved =>
        /\ Listed(last.sensor_pv) => ListedBy(last.result, last.sensor_pv)
        /\ (~Listed(last.sensor_pv) /\ Matches(last.sensor_pv) # {}) =>
                \E h \in Matches(last.sensor_pv) :
                    /\ last.result = Heuristics[h].owner
                    /\ \A k \in Matches(last.sensor_pv) : h <= k
        /\ (~Listed(last.sensor_pv) /\ Matches(last.sensor_pv) = {}) =>
                last.result = Nothing

\* an id no component lists, resolved by the first heuristic
C15_Witness ==
    /\ Resolved
    /\ last.sensor_pv = COOL_water_pressure_raw
    /\ ~Listed(last.sensor_pv)
    /\ last.result = COOL_primary_loop

(***************************************************************************)
(* The parser: checked under SpecParse.                                    *)
(***************************************************************************)
ParsedChain == last.op = "parse"

\* the tree of the i-th operand of a chain
Operand(chain, i) ==
    CASE chain.prefixes[i] = "" -> <<"proposition", ChainProps[i]>>
      [] chain.prefixes[i] = "~" -> <<"negation", <<"proposition", ChainProps[i]>>>>
      [] chain.prefixes[i] = "[]" -> <<"necessity", <<"proposition", ChainProps[i]>>>>
      [] chain.prefixes[i] = "<>" -> <<"possibility", <<"proposition", ChainProps[i]>>>>

\* precedence, lowest first, and the node an operator makes
Rank(op) == CASE op = "<->" -> 1 [] op = "->" -> 2 [] op = "|" -> 3 [] op = "&" -> 4
Node(op) ==
    CASE op = "<->" -> "equivalence" [] op = "->" -> "implication"
      [] op = "|" -> "disjunction" [] op = "&" -> "conjunction"

\* op(op(...(a1, a2)..., a(n-1)), an) over the operands from..to
RECURSIVE LeftNested(_, _, _, _)
LeftNested(chain, node, from, to) ==
    IF from = to THEN Operand(chain, to)
    ELSE <<node, LeftNested(chain, node, from, to - 1), Operand(chain, to)>>

\* the operands from..to grouped by precedence: split at the last operator of
\* the lowest precedence, both sides grouped the same way
RECURSIVE Grouped(_, _, _)
Grouped(chain, from, to) ==
    IF from = to THEN Operand(chain, to)
    ELSE LET k == CHOOSE k \in from..(to - 1) :
                    /\ \A j \in from..(to - 1) : Rank(chain.ops[k]) <= Rank(chain.ops[j])
                    /\ \A j \in (k + 1)..(to - 1) : Rank(chain.ops[k]) < Rank(chain.ops[j])
         IN  <<Node(chain.ops[k]), Grouped(chain, from, k), Grouped(chain, k + 1, to)>>

\* C16: a chain of one binary operator parses to a left-nested tree, for
\* conjunction, disjunction, implication and equivalence alike (a op b op c to
\* op(op(a, b), c)), and in a mixed chain the operators group by precedence
\* equivalence < implication < disjunction < conjunction < unary.
C16_LeftNestedByPrecedence ==
    ParsedChain =>
        /\ last.result.ok
        /\ \A op \in BinaryOps :
                (\A i \in DOMAIN last.chain.ops : last.chain.ops[i] = op) =>
                    last.result.ast =
                        LeftNested(last.chain, Node(op), 1, Len(last.chain.prefixes))
        /\ last.result.ast = Grouped(last.chain, 1, Len(last.chain.prefixes))

\* a -> b -> c is Implication(Implication(a, b), c)
C16_Witness ==
    /\ ParsedChain
    /\ last.chain.ops = <<"->", "->">>
    /\ last.chain.prefixes = <<"", "", "">>
    /\ last.result.ast =
            <<"implication",
              <<"implication", <<"proposition", cooling_fault_reported>>,
                               <<"proposition", klystron_fault_reported>>>>,
              <<"proposition", rf_fault_reported>>>>

(***************************************************************************)
(* The stages of a diagnosis run: checked under SpecDiagnose.              *)
(***************************************************************************)
\* the places of the calls of one kind in the run's trace
CallsOf(name) == {i \in DOMAIN last.calls : last.calls[i].call = name}

Validations == CallsOf("_is_hypothesis_valid")
Queries == CallsOf("process_query")
Updates == CallsOf("update_kripke_model")

\* the reversed direction is the second validation and the second query
ReversedValidationFailed ==
    \E i \in Validations, j \in Validations : i < j /\ ~last.calls[j].result
ReversedQueryFailed ==
    \E i \in Queries, j \in Queries : i < j /\ last.calls[j].status # "affirmative"

\* C17: a run of diagnose_system_state ends, and the pair is reversed at most
\* once: at most one theory request, two rule validations, two connectivity
\* queries and one belief update, the second query being the first with its ends
\* swapped; a failed reversed validation or reversed query ends the run with an
\* empty result.
C17_AtMostOneReversal ==
    DiagnosisDone =>
        /\ Cardinality(CallsOf("_get_causal_theory_from_llm")) <= 1
        /\ Cardinality(Validations) <= 2
        /\ Cardinality(Queries) <= 2
        /\ Cardinality(Updates) <= 1
        /\ \A i \in Queries, j \in Queries :
                i < j => /\ last.calls[j].query.upstream = last.calls[i].query.downstream
                         /\ last.calls[j].query.downstream = last.calls[i].query.upstream
        /\ (ReversedValidationFailed \/ ReversedQueryFailed) =>
                last.result = <<>> /\ last.raised = ""

\* both directions were queried and the reversed query was negative too
C17_Witness ==
    /\ DiagnosisDone
    /\ Cardinality(Validations) = 2
    /\ Cardinality(Queries) = 2
    /\ ReversedQueryFailed
    /\ last.result = <<>>

\* the theory is missing, lacks the root or the symptom, or names a root or a
\* symptom that is no key of the reports (a list is never a key)
TheoryUnusable ==
    \/ last.theory.kind # "object"
    \/ ~({"root_cause_agent", "symptom_agent"} \subseteq last.theory.keys)
    \/ last.theory.unhashable # {}
    \/ last.theory.root_cause_agent \notin last.reports
    \/ last.theory.symptom_agent \notin last.reports

\* C18: when the oracle's theory is missing, lacks a root_cause_agent or a
\* symptom_agent, or names a root or symptom that is no key of the reports,
\* diagnose_system_state returns an empty result and runs no rule validation,
\* no connectivity query and no belief update.
C18_UnusableTheoryRejected ==
    (DiagnosisDone /\ TheoryUnusable) =>
        /\ last.raised = ""
        /\ last.result = <<>>
        /\ Validations = {} /\ Queries = {} /\ Updates = {}
        /\ kripke_model = last.before

\* the proposition of a root sender: its name up to the first underscore, in
\* lower case, then _fault_reported
CandidateOf(agent) ==
    CASE agent = Cooling_Agent -> <<"cooling", "_", "fault", "_", "reported">>
      [] agent = Klystron_Agent -> <<"klystron", "_", "fault", "_", "reported">>
      [] agent = RF_Agent -> <<"rf", "_", "fault", "_", "reported">>
      [] agent = Vacuum_Agent -> <<"vacuum", "_", "fault", "_", "reported">>
      [] agent = Magnet_Agent -> <<"magnet", "_", "fault", "_", "reported">>

\* C19: in the forward and in the reversed direction validation comes before
\* verification: the proposition checked is that of the direction's root sender
\* (forward the theory's root, reversed its symptom), a connectivity query is
\* made only right after a passed check, and a failed check is the last call of
\* the run, which makes no belief update and returns an empty result.
C19_ValidationBeforeVerification ==
    DiagnosisDone =>
        /\ \A i \in Validations :
                last.calls[i].proposition =
                    IF \E j \in Validations : j < i
                    THEN CandidateOf(last.theory.symptom_agent)
                    ELSE CandidateOf(last.theory.root_cause_agent)
        /\ \A i \in Queries :
                /\ i - 1 \in Validations
                /\ last.calls[i - 1].result
        /\ \A i \in Validations :
                ~last.calls[i].result =>
                    /\ i = Len(last.calls)
                    /\ Updates = {}
                    /\ last.result = <<>>

\* the forward query was negative and the reversed proposition fails the rules
C19_Witness ==
    /\ DiagnosisDone
    /\ Cardinality(Validations) = 2
    /\ Cardinality(Queries) = 1
    /\ ReversedValidationFailed

\* C20: a belief update is requested in a run exactly when a connectivity query
\* was affirmative, which is when the run ends resolved; it is requested once,
\* right after that query, and the pair returned is the root and the symptom of
\* the direction that query verified; a run that returns an empty result leaves
\* the live model as it was.
C20_UpdateIffResolved ==
    DiagnosisDone =>
        /\ Updates # {} <=>
                \E i \in Queries : last.calls[i].status = "affirmative"
        /\ Updates # {} <=> last.result # <<>>
        /\ Cardinality(Updates) <= 1
        /\ \A u \in Updates :
                /\ u = Len(last.calls)
                /\ u - 1 \in Queries
                /\ last.calls[u - 1].status = "affirmative"
                /\ last.calls[u - 1].query.upstream = agent_to_pv_map[last.result[1]]
                /\ last.calls[u - 1].query.downstream = agent_to_pv_map[last.result[2]]
        /\ (last.result = <<>> /\ last.raised = "") => kripke_model = last.before

(***************************************************************************)
(* The rule check seen from the candidate: checked under SpecModal.        *)
(***************************************************************************)
\* the targets of the edges of R that leave a world of S
Targets(R, S) == {r[2] : r \in {q \in R : q[1] \in S}}

RECURSIVE ReachedFrom(_, _)

\* S and the worlds any number of edges of R away from it
ReachedFrom(R, S) ==
    IF Targets(R, S) \subseteq S THEN S ELSE ReachedFrom(R, S \cup Targets(R, S))

\* the current world is one or more edges away from itself
SelfReachable(model) ==
    model.current_world \in
        ReachedFrom(model.relations, Targets(model.relations, {model.current_world}))

\* every rule of the rule set parses to a necessity
NecessityRules(rules) ==
    \A i \in DOMAIN rules.list : parse(rules.list[i]).ast[1] = "necessity"

QueryOffCavity(i) ==
    \/ last.calls[i].query.upstream = agent_to_pv_map[RF_Agent]
    \/ last.calls[i].query.downstream # agent_to_pv_map[RF_Agent]

\* C22: a non-empty result of diagnose_system_state is a pair of two distinct
\* senders of the reports table whose second element is RF_Agent and whose first
\* is Cooling_Agent, Klystron_Agent or Vacuum_Agent; the connectivity query of a
\* direction whose root is RF_Agent or whose symptom is not RF_Agent is never
\* answered affirmatively.
C22_ResultNamesCavitySymptom ==
    DiagnosisDone =>
        /\ last.result # <<>> =>
            /\ Len(last.result) = 2
            /\ last.result[1] # last.result[2]
            /\ {last.result[1], last.result[2]} \subseteq last.reports
            /\ last.result[2] = RF_Agent
            /\ last.result[1] \in {Cooling_Agent, Klystron_Agent, Vacuum_Agent}
        /\ \A i \in Queries : QueryOffCavity(i) => last.calls[i].status # "affirmative"

\* a theory that named RF_Agent as the root: its forward query was refused and
\* the reversed pair came back
C22_Witness ==
    /\ DiagnosisDone
    /\ last.theory.kind = "object"
    /\ "root_cause_agent" \in last.theory.keys
    /\ last.theory.root_cause_agent = RF_Agent
    /\ \E i \in Queries : QueryOffCavity(i)
    /\ last.result = <<Vacuum_Agent, RF_Agent>>

(***************************************************************************)
(* Duality of the two modalities: checked under SpecEval.                  *)
(***************************************************************************)
\* Negation(Necessity(Negation(f)))
Dual(f) == <<"negation", <<"necessity", <<"negation", f>>>>>>

\* C23: Possibility(f) and Negation(Necessity(Negation(f))) evaluate alike at
\* every world, dead ends included; an evaluated possibility has the value of
\* its dual.
C23_ModalDuality ==
    Evaluated =>
        /\ evaluate(kripke_model, last.world, <<"possibility", last.formula>>)
                = evaluate(kripke_model, last.world, Dual(last.formula))
        /\ last.formula[1] = "possibility" =>
                last.result = evaluate(kripke_model, last.world, Dual(last.formula[2]))

\* a possibility evaluated at a dead end of a model that has edges elsewhere,
\* over a body true in every world
C23_Witness ==
    /\ Evaluated
    /\ NoOutgoingEdge(kripke_model, last.world)
    /\ kripke_model.relations # {}
    /\ last.formula[1] = "possibility"
    /\ \A w \in WorldIds : evaluate(kripke_model, w, last.formula[2])
    /\ ~last.result

(***************************************************************************)
(* The relation type in the connectivity query: checked under SpecLattice. *)
(***************************************************************************)
\* the component the upstream id of the query resolves to
UpstreamComponent == _find_component_by_sensor(LATTICE_LAYOUT, last.upstream)

\* C24: when the upstream id resolves to a component U and the downstream id is
\* a component listed in U's services, the answer is connected whatever the
\* relation type; two relation types under which the downstream component
\* agrees on naming U as its source get the same answer.
C24_ServicesIgnoreRelationType ==
    Queried =>
        /\ (/\ UpstreamComponent # Nothing
            /\ IsComponent(last.downstream)
            /\ Services(UpstreamComponent, last.downstream)) => last.answer.connected
        /\ \A type \in ConnectionTypes :
                (ListsAsSource(last.downstream, type, UpstreamComponent)
                    = ListsAsSource(last.downstream, last.type, UpstreamComponent))
                => are_components_connected(LATTICE_LAYOUT, last.upstream,
                                            last.downstream, type).connected
                        = last.answer.connected

\* a query of type "unknown", a type under which the downstream component names
\* nothing, answered connected through the services list of a component that
\* the downstream component does name under another type
C24_Witness ==
    /\ Queried
    /\ last.type = "unknown"
    /\ UpstreamComponent # Nothing
    /\ IsComponent(last.downstream)
    /\ Services(UpstreamComponent, last.downstream)
    /\ ~ListsAsSource(last.downstream, last.type, UpstreamComponent)
    /\ \E type \in ConnectionTypes :
            ListsAsSource(last.downstream, type, UpstreamComponent)
    /\ last.answer.connected

(***************************************************************************)
(* When the simulation loop attempts a diagnosis: checked under Spec.      *)
(***************************************************************************)
\* C25: a tick attempts a diagnosis only if a component agent reported in that
\* tick and both the diagnostics agent and the lattice agent exist; a tick
\* without a new report attempts none and leaves the pending table and the
\* model of the diagnostics agent as they were.
C25_AttemptOnlyOnNewReport ==
    [][/\ last'.analysed =>
            /\ last'.new # {}
            /\ AcceleratorDiagnosticsAgent \in agents
            /\ LatticeLayoutAgent \in agents
       /\ last'.new = {} =>
            /\ ~last'.analysed
            /\ unresolved_reports' = unresolved_reports
            /\ kripke_model' = kripke_model]_vars

\* a tick without a new report over a table that a rejected diagnosis left
\* with two pending reports: no attempt is made on them
C25_Witness ==
    /\ last.op = "tick"
    /\ tick > 1
    /\ last.new = {}
    /\ ~last.analysed
    /\ AcceleratorDiagnosticsAgent \in agents
    /\ LatticeLayoutAgent \in agents
    /\ Cardinality(unresolved_reports) >= 2
====
